---- MODULE Spec2Model ----
(***************************************************************************)
(* State-machine model of scripts/optimization/analyse_EPS.py (ca3net).    *)
(*                                                                         *)
(* Fixed-point representation of the script's quantities:                  *)
(*   time steps      : 1 tick = 0.1 ms (the simulation / monitor dt)       *)
(*   Python floats holding a time : value * 10^4                           *)
(*   voltages        : microvolt   (a float in mV is value * 10^3)         *)
(*   currents        : femtoampere (a float in pA is value * 10^3)         *)
(*   conductances    : picosiemens (a float in nS is value * 10^3)         *)
(*   g_ampa, x_ampa, norm_PC_E : value * 10^3                              *)
(* The state updater is a forward-Euler step in this arithmetic (the       *)
(* script asks the simulator for "exponential_euler").                     *)
(* An optional Python argument is <<>> for None and <<v>> for the value v. *)
(***************************************************************************)
EXTENDS Integers, Sequences, FiniteSets, TLC

VARIABLES
  pc,               \* position in the script
  err,              \* exception that ended the script / the call ("none" if none)
  sys_argv,         \* sys.argv (sequence of strings, each a sequence of characters)
  n,                \* number of random weights
  wmx_PC_E,         \* weight matrix (nS)
  nonzero_weights,  \* wmx_PC_E[np.nonzero(wmx_PC_E)]
  weights,          \* the sampled weights
  chosen,           \* positions of nonzero_weights drawn by np.random.choice
  i,                \* loop index of the trial loop (0-based)
  EPSPs, EPSCs,     \* result rows
  peak_EPSPs, peak_EPSCs,
  written,          \* per index: how many times the results were stored
  nsims,            \* number of sym_paired_recording calls that returned
  np_seed, py_seed, \* state of numpy's and Python's global random generators
  caller,           \* who called sym_paired_recording
  weight, i_hold,   \* arguments of sym_paired_recording
  net,              \* the simulated network (NeuronGroup, generator, synapse, monitor)
  t_, EPSP, EPSC,   \* traces returned by sym_paired_recording
  calls,            \* record of the finished calls: arguments and returned traces
  peak_i_hold, peak_v_hold,  \* arguments of get_peak_EPSP
  peak              \* outcome of get_peak_EPSP

cliVars  == <<sys_argv, n>>
mainVars == <<wmx_PC_E, nonzero_weights, weights, chosen, i, EPSPs, EPSCs,
              peak_EPSPs, peak_EPSCs, written, nsims>>
rngVars  == <<np_seed, py_seed>>
symVars  == <<caller, weight, i_hold, net, t_, EPSP, EPSC, calls>>
peakVars == <<peak_i_hold, peak_v_hold, peak>>
vars     == <<pc, err, cliVars, mainVars, rngVars, symVars, peakVars>>

-----------------------------------------------------------------------------
(* Python values *)

None == <<>>

Some(v) == <<v>>

\* truth value of an optional number: `if x:`
Truthy(x) == x # None /\ x[1] # 0

Max(S) == CHOOSE m \in S : \A y \in S : y <= m

Pow2(k) == IF k <= 0 THEN 1
           ELSE LET p[j \in 0..k] == IF j = 0 THEN 1 ELSE 2 * p[j - 1] IN p[k]

-----------------------------------------------------------------------------
(* Module-level parameters, lines 22-42 *)

TicksPerMs == 10

rise_PC_E == 13

decay_PC_E == 95

norm_PC_E == 1588

\* the delay taken as 22 ms
delay_PC_E_22ms == 22 * 10

delay_PC_E == 22

Erev_E == 0

z == 1000

g_leak_PC == 4315

tau_mem_PC == 417

Cm_PC == tau_mem_PC * g_leak_PC

Vrest_PC == -75188

Vreset_PC == -29739

theta_PC == -24426

tref_PC == 59

delta_T_PC == 4234

spike_th_PC == theta_PC + 5 * delta_T_PC

a_PC == -274

b_PC == 206841

tau_w_PC == 849

\* names bound in the module namespace when get_peak_EPSP runs
Globals == {"rise_PC_E", "decay_PC_E", "tp", "norm_PC_E", "delay_PC_E", "Erev_E",
            "z", "g_leak_PC", "tau_mem_PC", "Cm_PC", "Vrest_PC", "Vreset_PC",
            "theta_PC", "tref_PC", "delta_T_PC", "spike_th_PC", "a_PC", "b_PC",
            "tau_w_PC", "eqs_PC", "sym_paired_recording", "get_peak_EPSP"}

GlobalValue(name) == CASE name = "Vrest_PC" -> Vrest_PC
                       [] name = "Vreset_PC" -> Vreset_PC
                       [] OTHER -> 0

-----------------------------------------------------------------------------
(* eqs_PC, lines 44-51, and the objects built in sym_paired_recording *)

\* c * exp(q) for q given * 10^3, as c * 2^(q / ln 2) with a linear mantissa
ExpTimes(c, q) ==
  LET y == (q * 1000) \div 693
      e == y \div 1000
      f == y % 1000
      m == (c * (1000 + f)) \div 1000
  IN  IF e < -30 THEN 0
      ELSE IF e < 0 THEN m \div Pow2(-e)
      ELSE m * Pow2(e)

\* EPSC = -g_ampa*z*(vm-Erev_E)
EPSC_of(g_ampa, vm) == -(((g_ampa * z) \div 1000) * (vm - Erev_E)) \div 1000

\* dvm/dt = (-g_leak_PC*(vm-Vrest_PC) + g_leak_PC*delta_T_PC*exp(..) - w + I + EPSC)/Cm_PC
dvm(s) ==
  LET leak == -((g_leak_PC * (s.vm - Vrest_PC)) \div 1000)
      expo == ExpTimes((g_leak_PC * delta_T_PC) \div 1000,
                       ((s.vm - theta_PC) * 1000) \div delta_T_PC)
      tot  == leak + expo - s.w + s.I + EPSC_of(s.g_ampa, s.vm)
  IN  (tot * 100) \div (Cm_PC \div 10)

\* dw/dt = (a_PC*(vm- Vrest_PC )-w)/tau_w_PC
dw(s) == (((a_PC * (s.vm - Vrest_PC)) \div 1000) - s.w) \div tau_w_PC

\* dg_ampa/dt = (x_ampa - g_ampa) / rise_PC_E
dg_ampa(s) == (s.x_ampa - s.g_ampa) \div rise_PC_E

\* dx_ampa/dt = -x_ampa / decay_PC_E
dx_ampa(s) == (-s.x_ampa) \div decay_PC_E

\* a network that has not been built
NoNet == [k |-> 0, vm |-> 0, w |-> 0, g_ampa |-> 0, x_ampa |-> 0, I |-> 0,
          lastspike |-> None, queue |-> {}, events |-> <<>>, t_end |-> 0,
          mon_t |-> <<>>, mon_vm |-> <<>>, mon_EPSC |-> <<>>]

\* the neuron kept between calls: membrane state carried over
NewNet_carried == IF net = NoNet THEN [NoNet EXCEPT !.vm = Vrest_PC]
                  ELSE [NoNet EXCEPT !.vm = net.vm, !.w = net.w]

\* lines 66-76: a fresh network at t = 0; PC.vm = Vrest_PC; PC.g_ampa = 0.0;
\* every other state variable starts at zero
NewNet == [NoNet EXCEPT !.vm = Vrest_PC, !.g_ampa = 0]

\* PC's "unless refractory" / threshold condition
NotRefractory(s) == s.lastspike = None \/ s.k - s.lastspike[1] > tref_PC

\* the spike times of SpikeGeneratorGroup(1, [0], [250]*ms), in ticks
PreSpikeTicks == {250 * TicksPerMs}

\* on_pre="x_ampa+=norm_PC_E*weight"
OnPre(x_ampa, wgt) == x_ampa + (norm_PC_E * wgt) \div 1000

\* One time step of the network with synaptic weight wgt, in the simulator's
\* schedule: monitor, state update, thresholds, synapses, resets.
NetStep(s, wgt) ==
  LET rec    == [s EXCEPT !.mon_t   = Append(@, s.k),
                          !.mon_vm  = Append(@, s.vm),
                          !.mon_EPSC = Append(@, EPSC_of(s.g_ampa, s.vm))]
      nr     == NotRefractory(s)
      vm1    == IF nr THEN s.vm + dvm(s) ELSE s.vm
      w1     == s.w + dw(s)
      g1     == s.g_ampa + dg_ampa(s)
      x1     == s.x_ampa + dx_ampa(s)
      fired  == nr /\ vm1 > spike_th_PC
      pre    == s.k \in PreSpikeTicks
      q1     == IF pre THEN s.queue \cup {s.k + delay_PC_E} ELSE s.queue
      due    == s.k \in q1
      x2     == IF due THEN OnPre(x1, wgt) ELSE x1
      ev1    == IF pre THEN Append(s.events, <<"pre_spike", s.k>>) ELSE s.events
      ev2    == IF due THEN Append(ev1, <<"on_pre", s.k>>) ELSE ev1
  IN  [rec EXCEPT !.k = s.k + 1,
                  !.vm = IF fired THEN Vreset_PC ELSE vm1,
                  !.w = IF fired THEN w1 + b_PC ELSE w1,
                  !.g_ampa = g1,
                  !.x_ampa = x2,
                  !.lastspike = IF fired THEN Some(s.k) ELSE @,
                  !.queue = q1 \ {s.k},
                  !.events = ev2]

\* run(d*ms) in one piece: d * TicksPerMs steps
RECURSIVE RunSteps(_, _, _)
RunSteps(s, wgt, cnt) ==
  IF cnt = 0 THEN s
  ELSE IF cnt = 1 THEN NetStep(s, wgt)
  ELSE LET half == RunSteps(s, wgt, cnt \div 2)
       IN  IF half.k = s.k + cnt \div 2
             THEN RunSteps(half, wgt, cnt - cnt \div 2)
             ELSE half

\* PC.I = i_hold * pA
SetI(s, ih) == [s EXCEPT !.I = ih[1], !.events = Append(@, <<"I_set", s.k>>)]

\* a seeded, unused generator
Seeded(seed) == [seeded |-> TRUE, seed |-> seed, draws |-> 0]

Unseeded == [seeded |-> FALSE, seed |-> 0, draws |-> 0]

-----------------------------------------------------------------------------
(* sym_paired_recording, lines 54-83 *)

\* line 78: run(10*ms)
Run1Ticks == 10 * TicksPerMs

\* run(400*ms) for the second phase
Run2Ticks_400 == 400 * TicksPerMs

\* line 81: run(390*ms)
Run2Ticks == 390 * TicksPerMs

\* line 79: `if i_hold:`
HoldApplies(ih) == Truthy(ih)

\* run(d): the network runs from its current time for d ticks
StartRun(s, d) == [s EXCEPT !.t_end = s.k + d]

\* lines 62-63
SymSeed ==
  /\ pc = "sym_seed"
  /\ np_seed' = Seeded(12345)
  /\ py_seed' = Seeded(12345)
  /\ pc' = "sym_build"
  /\ UNCHANGED <<err, cliVars, mainVars, symVars, peakVars>>

\* lines 66-76, and the start of run(10*ms)
SymBuild ==
  /\ pc = "sym_build"
  /\ net' = StartRun(NewNet, Run1Ticks)
  /\ pc' = "sym_run1"
  /\ UNCHANGED <<err, cliVars, mainVars, rngVars, caller, weight, i_hold,
                 t_, EPSP, EPSC, calls, peakVars>>

\* line 78, run(10*ms), one time step at a time
Run1Step ==
  /\ pc = "sym_run1"
  /\ caller = "trial_spec"
  /\ IF net.k < net.t_end
       THEN net' = NetStep(net, weight) /\ pc' = pc
       ELSE net' = net /\ pc' = "sym_hold"
  /\ UNCHANGED <<err, cliVars, mainVars, rngVars, caller, weight, i_hold,
                 t_, EPSP, EPSC, calls, peakVars>>

\* line 78, run(10*ms), as one step of the script
Run1 ==
  /\ pc = "sym_run1"
  /\ caller \in {"trial", "mean"}
  /\ net' = RunSteps(net, weight, net.t_end - net.k)
  /\ pc' = "sym_hold"
  /\ UNCHANGED <<err, cliVars, mainVars, rngVars, caller, weight, i_hold,
                 t_, EPSP, EPSC, calls, peakVars>>

\* lines 79-80, and the start of run(390*ms)
SymHold ==
  /\ pc = "sym_hold"
  /\ net' = StartRun(IF HoldApplies(i_hold) THEN SetI(net, i_hold) ELSE net, Run2Ticks)
  /\ pc' = "sym_run2"
  /\ UNCHANGED <<err, cliVars, mainVars, rngVars, caller, weight, i_hold,
                 t_, EPSP, EPSC, calls, peakVars>>

\* line 81, run(390*ms), one time step at a time
Run2Step ==
  /\ pc = "sym_run2"
  /\ caller = "trial_spec"
  /\ IF net.k < net.t_end
       THEN net' = NetStep(net, weight) /\ pc' = pc
       ELSE net' = net /\ pc' = "sym_return"
  /\ UNCHANGED <<err, cliVars, mainVars, rngVars, caller, weight, i_hold,
                 t_, EPSP, EPSC, calls, peakVars>>

\* line 81, run(390*ms), as one step of the script
Run2 ==
  /\ pc = "sym_run2"
  /\ caller \in {"trial", "mean"}
  /\ net' = RunSteps(net, weight, net.t_end - net.k)
  /\ pc' = "sym_return"
  /\ UNCHANGED <<err, cliVars, mainVars, rngVars, caller, weight, i_hold,
                 t_, EPSP, EPSC, calls, peakVars>>

\* the monitor's times returned in seconds
MonitorTimes_seconds(mon_t) == mon_t

\* StateM_PC.t_ * 1000: the monitor's times in seconds, times 1000
MonitorTimes(mon_t) == [j \in 1..Len(mon_t) |-> mon_t[j] * 1000]

\* line 83
SymReturn ==
  /\ pc = "sym_return"
  /\ t_' = MonitorTimes(net.mon_t)
  /\ EPSP' = net.mon_vm
  /\ EPSC' = net.mon_EPSC
  /\ calls' = Append(calls, [weight |-> weight, i_hold |-> i_hold,
                             t_ |-> t_', EPSP |-> EPSP', EPSC |-> EPSC'])
  /\ nsims' = nsims + 1
  /\ pc' = CASE caller = "trial_spec" -> "done"
             [] caller = "peak_spec" -> "call_peak"
             [] caller = "trial" -> "store"
             [] OTHER -> "plot"
  /\ UNCHANGED <<err, cliVars, wmx_PC_E, nonzero_weights, weights, chosen, i,
                 EPSPs, EPSCs, peak_EPSPs, peak_EPSCs, written, rngVars,
                 caller, weight, i_hold, net, peakVars>>

-----------------------------------------------------------------------------
(* get_peak_EPSP, lines 86-100 *)

Return(v) == [kind |-> "return", val |-> v]

Raise(e) == [kind |-> e, val |-> 0]

NoOutcome == [kind |-> "none", val |-> 0]

\* maximum of a[lo..hi], lo <= hi
RECURSIVE MaxRange(_, _, _)
MaxRange(a, lo, hi) ==
  IF lo = hi THEN a[lo]
  ELSE LET mid == (lo + hi) \div 2
           l   == MaxRange(a, lo, mid)
           r   == MaxRange(a, mid + 1, hi)
       IN  IF l >= r THEN l ELSE r

\* np.max(a): raises ValueError on an empty array
np_max(a) == IF Len(a) = 0 THEN Raise("ValueError") ELSE Return(MaxRange(a, 1, Len(a)))

Indices(len) == [j \in 1..len |-> j]

\* np.where((250 < t_) & (t_ < 350)), t_ a sequence of floats (value * 10^4)
InWindow(tv) == 250 * 10000 < tv /\ tv < 350 * 10000

Where(tt) == SelectSeq(Indices(Len(tt)), LAMBDA j : InWindow(tt[j]))

\* EPSP[idx]
Take(a, idx) == [m \in 1..Len(idx) |-> a[idx[m]]]

\* line 100: np.max(EPSP) - Vrest_Pyr/mV, evaluated left to right
PeakAtRest(ep) ==
  LET m == np_max(ep)
  IN  IF m.kind # "return" THEN m
      ELSE IF "Vrest_Pyr" \notin Globals THEN Raise("NameError")
      ELSE Return(m.val - GlobalValue("Vrest_Pyr"))

get_peak_EPSP(tt, ep, ih, vh) ==
  IF Truthy(ih)
    THEN IF ~Truthy(vh) THEN Raise("AssertionError")
         ELSE LET m == np_max(Take(ep, Where(tt)))
              IN  IF m.kind # "return" THEN m ELSE Return(m.val - vh[1])
    ELSE IF ih # None THEN Raise("AssertionError")
         ELSE PeakAtRest(ep)

IHolds == {None, Some(0), Some(20967)}

VHolds == {None, Some(0), Some(-70000)}

\* a call of get_peak_EPSP on the traces sym_paired_recording returned
CallGetPeak ==
  /\ pc = "call_peak"
  /\ \E ih \in IHolds, vh \in VHolds :
       /\ peak_i_hold' = ih
       /\ peak_v_hold' = vh
       /\ peak' = get_peak_EPSP(t_, EPSP, ih, vh)
  /\ pc' = "done"
  /\ UNCHANGED <<err, cliVars, mainVars, rngVars, symVars>>

-----------------------------------------------------------------------------
(* Command line, lines 105-108 *)

MaxArgLen == 3

Chars == {"0", "1", "2", "-", "+", " ", "x"}

\* the values sys.argv can take: the script name, then at most one argument
ArgStrings == UNION {[1..len -> Chars] : len \in 0..MaxArgLen}

Argvs == {<<<<"x">>>>} \cup {<<<<"x">>, a>> : a \in ArgStrings}

IsDigit(c) == c \in {"0", "1", "2", "3", "4", "5", "6", "7", "8", "9"}

DigitVal(c) == CASE c = "0" -> 0 [] c = "1" -> 1 [] c = "2" -> 2 [] c = "3" -> 3
                 [] c = "4" -> 4 [] c = "5" -> 5 [] c = "6" -> 6 [] c = "7" -> 7
                 [] c = "8" -> 8 [] c = "9" -> 9

RECURSIVE LStrip(_)
LStrip(s) == IF s # <<>> /\ Head(s) = " " THEN LStrip(Tail(s)) ELSE s

RECURSIVE RStrip(_)
RStrip(s) == IF s # <<>> /\ s[Len(s)] = " " THEN RStrip(SubSeq(s, 1, Len(s) - 1)) ELSE s

RECURSIVE DigitsValue(_)
DigitsValue(ds) ==
  IF ds = <<>> THEN 0
  ELSE DigitsValue(SubSeq(ds, 1, Len(ds) - 1)) * 10 + DigitVal(ds[Len(ds)])

\* int(s) for a string: surrounding blanks, an optional sign, decimal digits
PyInt(s) ==
  LET b    == RStrip(LStrip(s))
      sign == IF b # <<>> /\ b[1] = "-" THEN -1 ELSE 1
      ds   == IF b # <<>> /\ b[1] \in {"-", "+"} THEN Tail(b) ELSE b
  IN  IF ds = <<>> \/ \E j \in 1..Len(ds) : ~IsDigit(ds[j])
        THEN Raise("ValueError")
        ELSE Return(sign * DigitsValue(ds))

\* line 106: int(sys.argv[1])
ArgValue(argv) == IF Len(argv) < 2 THEN Raise("IndexError") ELSE PyInt(argv[2])

\* `except ValueError:`
Catches_ValueError(e) == e = "ValueError"

\* line 107: a bare `except:` catches every exception
Catches(e) == TRUE

\* line 108
DefaultN == 500

\* lines 105-108
ParseArgs ==
  /\ pc = "parse_args"
  /\ LET r == ArgValue(sys_argv)
     IN  IF r.kind = "return"
           THEN n' = r.val /\ err' = err /\ pc' = "parsed"
           ELSE IF Catches(r.kind)
             THEN n' = DefaultN /\ err' = err /\ pc' = "parsed"
             ELSE n' = n /\ err' = r.kind /\ pc' = "crashed"
  /\ UNCHANGED <<sys_argv, mainVars, rngVars, symVars, peakVars>>

-----------------------------------------------------------------------------
(* The script, lines 110-136 *)

\* line 110
main_v_hold == Some(-70000)

\* line 111
main_i_hold == Some(20967)

\* line 123: "4000 is hard coded for sim length"
RowLen == 4000

\* contents of the weight file, after the nS conversion of line 115
WmxSet == { << <<0, 1000>>, <<1000, 0>> >>,
            << <<0, 1000>>, <<2000, 1000>> >> }

RECURSIVE Flatten(_)
Flatten(m) == IF m = <<>> THEN <<>> ELSE Head(m) \o Flatten(Tail(m))

\* line 117: wmx_PC_E[np.nonzero(wmx_PC_E)]
Nonzero(m) == SelectSeq(Flatten(m), LAMBDA x : x # 0)

RECURSIVE SumSeq(_)
SumSeq(a) == IF a = <<>> THEN 0 ELSE Head(a) + SumSeq(Tail(a))

\* np.mean of a non-empty array
np_mean(a) == SumSeq(a) \div Len(a)

Injective(f) == \A p, q \in DOMAIN f : p # q => f[p] # f[q]

\* np.random.choice(a, k) with the default replace=True
np_random_choice_replace(a, k) ==
  IF k < 0
    THEN {[kind |-> "ValueError", idx |-> <<>>]}
    ELSE {[kind |-> "return", idx |-> f] : f \in [1..k -> 1..Len(a)]}

\* line 121: np.random.choice(a, k, replace=False): the positions it may draw,
\* or ValueError when k positions cannot be drawn without replacement
np_random_choice(a, k) ==
  IF k < 0 \/ k > Len(a)
    THEN {[kind |-> "ValueError", idx |-> <<>>]}
    ELSE {[kind |-> "return", idx |-> f] : f \in {g \in [1..k -> 1..Len(a)] : Injective(g)}}

\* np.zeros((rows, cols))
Zeros(rows, cols) == [r \in 1..rows |-> [c \in 1..cols |-> 0]]

\* line 127: M[i,:] = row, i 0-based
StoreRow(M, idx, row) == [M EXCEPT ![idx + 1] = row]

\* lines 113-115
LoadWeights ==
  /\ pc = "load"
  /\ \E m \in WmxSet : wmx_PC_E' = m
  /\ pc' = "nonzero"
  /\ UNCHANGED <<err, cliVars, nonzero_weights, weights, chosen, i, EPSPs, EPSCs,
                 peak_EPSPs, peak_EPSCs, written, nsims, rngVars, symVars, peakVars>>

\* lines 117-118
SelectNonzero ==
  /\ pc = "nonzero"
  /\ nonzero_weights' = Nonzero(wmx_PC_E)
  /\ pc' = "sample"
  /\ UNCHANGED <<err, cliVars, wmx_PC_E, weights, chosen, i, EPSPs, EPSCs,
                 peak_EPSPs, peak_EPSCs, written, nsims, rngVars, symVars, peakVars>>

\* lines 120-121
SampleWeights ==
  /\ pc = "sample"
  /\ np_seed' = [Seeded(12345) EXCEPT !.draws = 1]
  /\ \E r \in np_random_choice(nonzero_weights, n) :
       IF r.kind = "return"
         THEN /\ chosen' = r.idx
              /\ weights' = Take(nonzero_weights, r.idx)
              /\ err' = err
              /\ pc' = "alloc"
         ELSE /\ chosen' = chosen
              /\ weights' = weights
              /\ err' = r.kind
              /\ pc' = "crashed"
  /\ UNCHANGED <<cliVars, wmx_PC_E, nonzero_weights, i, EPSPs, EPSCs,
                 peak_EPSPs, peak_EPSCs, written, nsims, py_seed, symVars, peakVars>>

\* lines 123-124
Alloc ==
  /\ pc = "alloc"
  /\ EPSPs' = Zeros(n, RowLen)
  /\ EPSCs' = Zeros(n, RowLen)
  /\ peak_EPSPs' = [j \in 1..n |-> 0]
  /\ peak_EPSCs' = [j \in 1..n |-> 0]
  /\ written' = [j \in 1..n |-> [rows |-> 0, peak_EPSP |-> 0, peak_EPSC |-> 0]]
  /\ i' = 0
  /\ pc' = "loop"
  /\ UNCHANGED <<err, cliVars, wmx_PC_E, nonzero_weights, weights, chosen, nsims,
                 rngVars, symVars, peakVars>>

\* the loop stopping one weight early
LoopNext_short ==
  /\ pc = "loop"
  /\ i < Len(weights) - 1
  /\ weight' = weights[i + 1]
  /\ i_hold' = main_i_hold
  /\ caller' = "trial"
  /\ pc' = "sym_seed"
  /\ UNCHANGED <<err, cliVars, mainVars, rngVars, net, t_, EPSP, EPSC, calls, peakVars>>

\* lines 125-126: the next sampled weight, or the end of the loop
LoopNext ==
  /\ pc = "loop"
  /\ i < Len(weights)
  /\ weight' = weights[i + 1]
  /\ i_hold' = main_i_hold
  /\ caller' = "trial"
  /\ pc' = "sym_seed"
  /\ UNCHANGED <<err, cliVars, mainVars, rngVars, net, t_, EPSP, EPSC, calls, peakVars>>

\* line 127
StoreTraces ==
  /\ pc = "store"
  /\ IF Len(EPSP) = RowLen /\ Len(EPSC) = RowLen
       THEN /\ EPSPs' = StoreRow(EPSPs, i, EPSP)
            /\ EPSCs' = StoreRow(EPSCs, i, EPSC)
            /\ written' = [written EXCEPT ![i + 1].rows = @ + 1]
            /\ err' = err
            /\ pc' = "peak_EPSP"
       ELSE /\ UNCHANGED <<EPSPs, EPSCs, written>>
            /\ err' = "ValueError"
            /\ pc' = "crashed"
  /\ UNCHANGED <<cliVars, wmx_PC_E, nonzero_weights, weights, chosen, i,
                 peak_EPSPs, peak_EPSCs, nsims, rngVars, symVars, peakVars>>

\* line 128
StorePeakEPSP ==
  /\ pc = "peak_EPSP"
  /\ peak_i_hold' = main_i_hold
  /\ peak_v_hold' = main_v_hold
  /\ peak' = get_peak_EPSP(t_, EPSP, main_i_hold, main_v_hold)
  /\ IF peak'.kind = "return"
       THEN /\ peak_EPSPs' = [peak_EPSPs EXCEPT ![i + 1] = peak'.val]
            /\ written' = [written EXCEPT ![i + 1].peak_EPSP = @ + 1]
            /\ err' = err
            /\ pc' = "peak_EPSC"
       ELSE /\ UNCHANGED <<peak_EPSPs, written>>
            /\ err' = peak'.kind
            /\ pc' = "crashed"
  /\ UNCHANGED <<cliVars, wmx_PC_E, nonzero_weights, weights, chosen, i, EPSPs, EPSCs,
                 peak_EPSCs, nsims, rngVars, symVars>>

\* line 129, and the end of one iteration
StorePeakEPSC ==
  /\ pc = "peak_EPSC"
  /\ LET m == np_max(EPSC)
     IN  IF m.kind = "return"
           THEN /\ peak_EPSCs' = [peak_EPSCs EXCEPT ![i + 1] = m.val]
                /\ written' = [written EXCEPT ![i + 1].peak_EPSC = @ + 1]
                /\ i' = i + 1
                /\ err' = err
                /\ pc' = "loop"
           ELSE /\ UNCHANGED <<peak_EPSCs, written, i>>
                /\ err' = m.kind
                /\ pc' = "crashed"
  /\ UNCHANGED <<cliVars, wmx_PC_E, nonzero_weights, weights, chosen, EPSPs, EPSCs,
                 peak_EPSPs, nsims, rngVars, symVars, peakVars>>

\* line 131
MeanCall ==
  /\ pc = "loop"
  /\ i >= Len(weights)
  /\ weight' = np_mean(nonzero_weights)
  /\ i_hold' = main_i_hold
  /\ caller' = "mean"
  /\ pc' = "sym_seed"
  /\ UNCHANGED <<err, cliVars, mainVars, rngVars, net, t_, EPSP, EPSC, calls, peakVars>>

\* lines 134-136
Plot ==
  /\ pc = "plot"
  /\ pc' = "done"
  /\ UNCHANGED <<err, cliVars, mainVars, rngVars, symVars, peakVars>>

-----------------------------------------------------------------------------
(* Specifications *)

IdleCli  == sys_argv = <<>> /\ n = 0

IdleMain ==
  /\ wmx_PC_E = <<>> /\ nonzero_weights = <<>> /\ weights = <<>> /\ chosen = <<>>
  /\ i = 0 /\ EPSPs = <<>> /\ EPSCs = <<>> /\ peak_EPSPs = <<>> /\ peak_EPSCs = <<>>
  /\ written = <<>> /\ nsims = 0

IdleSym  == net = NoNet /\ t_ = <<>> /\ EPSP = <<>> /\ EPSC = <<>> /\ calls = <<>>

IdlePeak == peak_i_hold = None /\ peak_v_hold = None /\ peak = NoOutcome

\* The script from line 110 on, for the sample counts the command line can leave in n.
MaxN == 3

Init ==
  /\ pc = "load" /\ err = "none"
  /\ sys_argv = <<>> /\ n \in -1..MaxN
  /\ IdleMain /\ IdleSym /\ IdlePeak
  /\ np_seed = Unseeded /\ py_seed = Unseeded
  /\ caller = "none" /\ weight = 0 /\ i_hold = None

Next ==
  \/ LoadWeights \/ SelectNonzero \/ SampleWeights \/ Alloc \/ LoopNext
  \/ SymSeed \/ SymBuild \/ Run1 \/ SymHold \/ Run2 \/ SymReturn
  \/ StoreTraces \/ StorePeakEPSP \/ StorePeakEPSC \/ MeanCall \/ Plot

Spec == Init /\ [][Next]_vars

\* The command line, lines 105-108.
CLIInit ==
  /\ pc = "parse_args" /\ err = "none"
  /\ sys_argv \in Argvs /\ n = 0
  /\ IdleMain /\ IdleSym /\ IdlePeak
  /\ np_seed = Unseeded /\ py_seed = Unseeded
  /\ caller = "none" /\ weight = 0 /\ i_hold = None

CLINext == ParseArgs

CLISpec == CLIInit /\ [][CLINext]_vars

\* One call of sym_paired_recording, time step by time step.
TrialWeights == {500, 1000, 2000, 20000}

SeedStates == {Unseeded, Seeded(12345), [Seeded(12345) EXCEPT !.draws = 1]}

TrialInit ==
  /\ pc = "sym_seed" /\ err = "none"
  /\ IdleCli /\ IdleMain /\ IdleSym /\ IdlePeak
  /\ np_seed \in SeedStates /\ py_seed \in {Unseeded, Seeded(12345)}
  /\ caller = "trial_spec"
  /\ weight \in TrialWeights
  /\ i_hold \in IHolds

TrialNext == SymSeed \/ SymBuild \/ Run1Step \/ SymHold \/ Run2Step \/ SymReturn

TrialSpec == TrialInit /\ [][TrialNext]_vars

\* get_peak_EPSP on the return value of sym_paired_recording, for recordings of
\* at most MaxLen samples taken at the monitor ticks SampleTicks.
MaxLen == 3

SampleTicks == {50, 2499, 2500, 2501, 3499, 3500, 3501}

SampleVms == {-71000, -70000, -69000}

Recordings ==
  UNION {{[mon_t |-> tt, mon_vm |-> vv] :
            tt \in {f \in [1..len -> SampleTicks] : \A j \in 1..(len - 1) : f[j] < f[j + 1]},
            vv \in [1..len -> SampleVms]} : len \in 1..MaxLen}

PeakInit ==
  /\ pc = "sym_return" /\ err = "none"
  /\ IdleCli /\ IdleMain /\ IdlePeak
  /\ np_seed = Seeded(12345) /\ py_seed = Seeded(12345)
  /\ caller = "peak_spec" /\ weight = 1000 /\ i_hold = main_i_hold
  /\ \E r \in Recordings :
       net = [NoNet EXCEPT !.mon_t = r.mon_t, !.mon_vm = r.mon_vm,
                           !.mon_EPSC = [j \in 1..Len(r.mon_t) |-> 0]]
  /\ t_ = <<>> /\ EPSP = <<>> /\ EPSC = <<>> /\ calls = <<>>

PeakNext == SymReturn \/ CallGetPeak

PeakSpec == PeakInit /\ [][PeakNext]_vars

-----------------------------------------------------------------------------
(* Properties *)

Supplied(x) == x # None

SymStates == {"sym_seed", "sym_build", "sym_run1", "sym_hold", "sym_run2", "sym_return"}

\* C1: get_peak_EPSP fails with an assertion failure exactly when one of i_hold,
\* v_hold is supplied without the other; no assertion fails when both or neither
\* are supplied.
C1_PairGuard ==
  pc = "done" =>
    ((Supplied(peak_i_hold) # Supplied(peak_v_hold)) <=> peak.kind = "AssertionError")

\* C7: with i_hold and v_hold both omitted, get_peak_EPSP returns the maximum of
\* the whole EPSP trace minus the resting potential Vrest_PC, raising nothing.
C7_PeakAtRest ==
  (pc = "done" /\ peak_i_hold = None /\ peak_v_hold = None) =>
    peak = Return(Max({EPSP[j] : j \in 1..Len(EPSP)}) - Vrest_PC)

\* the samples recorded strictly between 250 ms and 350 ms, by monitor tick
WindowSamples == {j \in 1..Len(net.mon_t) : 2500 < net.mon_t[j] /\ net.mon_t[j] < 3500}

\* C8: with i_hold and v_hold both non-zero, get_peak_EPSP returns the maximum of
\* the EPSP samples recorded strictly between 250 ms and 350 ms, minus v_hold;
\* samples at t <= 250 ms or t >= 350 ms do not contribute, the times returned
\* by sym_paired_recording being in milliseconds.
C8_WindowedPeak ==
  (pc = "done" /\ Truthy(peak_i_hold) /\ Truthy(peak_v_hold) /\ WindowSamples # {}) =>
    peak = Return(Max({net.mon_vm[j] : j \in WindowSamples}) - peak_v_hold[1])

\* a call whose largest sample lies outside the window, one sample at exactly 250 ms
C8_Witness ==
  /\ pc = "done" /\ Truthy(peak_i_hold) /\ Truthy(peak_v_hold)
  /\ peak = Return(-71000 - peak_v_hold[1])
  /\ \E j \in 1..Len(net.mon_t) : net.mon_t[j] = 2500 /\ net.mon_vm[j] = -69000
  /\ \E j \in 1..Len(net.mon_t) : net.mon_t[j] = 50 /\ net.mon_vm[j] = -69000
  /\ WindowSamples # {}

\* an integer literal: blanks, an optional sign, digits, blanks
IsIntLiteral(s) ==
  \E lo, hi \in 1..Len(s) :
    /\ lo <= hi
    /\ \A j \in 1..Len(s) : (j < lo \/ j > hi) => s[j] = " "
    /\ \E d \in lo..hi :
         /\ d \in {lo, lo + 1}
         /\ d = lo + 1 => s[lo] \in {"+", "-"}
         /\ \A j \in d..hi : IsDigit(s[j])

Pow10(k) == LET p[j \in 0..k] == IF j = 0 THEN 1 ELSE 10 * p[j - 1] IN p[k]

LiteralValue(s) ==
  LET ds  == SelectSeq(s, IsDigit)
      pos[j \in 0..Len(ds)] ==
        IF j = 0 THEN 0 ELSE pos[j - 1] + DigitVal(ds[j]) * Pow10(Len(ds) - j)
  IN  IF \E j \in 1..Len(s) : s[j] = "-" THEN -pos[Len(ds)] ELSE pos[Len(ds)]

\* C2: parsing the sample count never ends in an error; n is 500 when the first
\* argument is absent or is no integer literal, and otherwise n is that integer.
C2_ArgParsing ==
  /\ pc \in {"parse_args", "parsed"}
  /\ err = "none"
  /\ pc = "parsed" =>
       n = IF Len(sys_argv) >= 2 /\ IsIntLiteral(sys_argv[2])
             THEN LiteralValue(sys_argv[2])
             ELSE 500

C2_Witness ==
  /\ pc = "parsed"
  /\ sys_argv = << <<"x">>, <<"1", "x">> >>
  /\ n = 500

Sampled == pc \notin {"load", "nonzero", "sample", "crashed"}

\* C3: the sample has exactly n elements, none of them zero, each taken from a
\* position of the non-zero weight array, no position taken twice; sampling
\* succeeds only if n is at most the number of non-zero weights.
C3_SampleWithoutReplacement ==
  /\ Sampled =>
       /\ Len(weights) = n /\ Len(chosen) = n
       /\ n <= Len(nonzero_weights)
       /\ \A j \in 1..n :
            /\ chosen[j] \in 1..Len(nonzero_weights)
            /\ weights[j] = nonzero_weights[chosen[j]]
            /\ weights[j] # 0
       /\ \A p, q \in 1..n : p # q => chosen[p] # chosen[q]
  /\ (pc = "crashed" /\ Len(weights) = 0 /\ i = 0 /\ nsims = 0) =>
       (n < 0 \/ n > Len(nonzero_weights))

\* two equal weights drawn from two different positions
C3_Witness ==
  /\ pc = "alloc" /\ n = 3
  /\ weights[1] = weights[3] /\ chosen[1] # chosen[3]

AllWritten == [rows |-> 1, peak_EPSP |-> 1, peak_EPSC |-> 1]

NotWritten == [rows |-> 0, peak_EPSP |-> 0, peak_EPSC |-> 0]

\* C4: the stages run in order and the trials one after the other: a trial starts
\* only when every earlier trial has run its 400 ms and stored its traces and
\* peaks at its own index; at the end every index was written exactly once with
\* the result for weights[i], one more simulation with the mean non-zero weight
\* followed, n + 1 simulations ran, and the script ends without an error.
C4_SequentialPipeline ==
  /\ (pc \in SymStates \cup {"alloc", "loop", "store", "peak_EPSP", "peak_EPSC", "plot", "done"})
       => (wmx_PC_E # <<>> /\ Len(weights) = n /\ err = "none")
  /\ (pc \in SymStates \cup {"loop", "store", "peak_EPSP", "peak_EPSC", "plot", "done"}) =>
       /\ i \in 0..n
       /\ Len(calls) = nsims
       /\ nsims = i + (IF pc \in {"store", "peak_EPSP", "peak_EPSC", "plot", "done"}
                         THEN 1 ELSE 0)
       /\ (caller = "mean" \/ pc \in {"plot", "done"}) => i = n
       /\ (pc \in SymStates /\ caller = "trial") => (i < n /\ weight = weights[i + 1])
       /\ \A j \in 1..nsims : Len(calls[j].EPSP) = 4000 /\ Len(calls[j].EPSC) = 4000
       /\ \A j \in 1..n :
            /\ j <= i => written[j] = AllWritten
            /\ j > i + 1 => written[j] = NotWritten
            /\ j = i + 1 =>
                 written[j] = [rows      |-> IF pc \in {"peak_EPSP", "peak_EPSC"} THEN 1 ELSE 0,
                               peak_EPSP |-> IF pc = "peak_EPSC" THEN 1 ELSE 0,
                               peak_EPSC |-> 0]
       /\ \A j \in 1..i :
            /\ calls[j].weight = weights[j]
            /\ EPSPs[j] = calls[j].EPSP
            /\ EPSCs[j] = calls[j].EPSC
            /\ peak_EPSPs[j] = MaxRange(calls[j].EPSP, 2502, 3500) - main_v_hold[1]
            /\ peak_EPSCs[j] = MaxRange(calls[j].EPSC, 1, 4000)
  /\ pc = "done" =>
       /\ nsims = n + 1
       /\ calls[n + 1].weight = np_mean(nonzero_weights)
  /\ pc = "loop" => ENABLED (LoopNext \/ MeanCall)
  /\ pc = "plot" => ENABLED Plot

C4_Witness ==
  /\ pc = "done" /\ n = 3 /\ nsims = 4
  /\ \A j \in 1..3 : written[j] = AllWritten

\* C5: every call of sym_paired_recording builds its circuit with both random
\* generators just seeded with 12345, two calls with the same arguments return
\* identical traces whatever ran before them, and the sampled weights stay as drawn.
C5_TrialsIndependent ==
  /\ pc \in {"sym_build", "sym_run1", "sym_hold", "sym_run2", "sym_return"} =>
       (np_seed = Seeded(12345) /\ py_seed = Seeded(12345))
  /\ \A p, q \in 1..Len(calls) :
       (calls[p].weight = calls[q].weight /\ calls[p].i_hold = calls[q].i_hold) =>
          calls[p] = calls[q]
  /\ Sampled => weights = [j \in 1..n |-> nonzero_weights[chosen[j]]]

\* the same weight simulated first and third, another weight in between
C5_Witness ==
  /\ Len(calls) >= 3
  /\ calls[1].weight = calls[3].weight
  /\ calls[2].weight # calls[1].weight
  /\ calls[1].EPSP = calls[3].EPSP
  /\ Len(calls[3].EPSP) = 4000

\* C6: for every weight and i_hold a call simulates 10 ms + 390 ms = 400 ms and
\* returns time, EPSP and EPSC arrays of exactly 4000 samples, one every 0.1 ms,
\* the row length of the result arrays.
C6_TraceShape ==
  pc = "done" =>
    /\ net.k = 400 * 10
    /\ Len(t_) = 4000 /\ Len(EPSP) = 4000 /\ Len(EPSC) = 4000
    /\ Len(t_) = RowLen
    /\ \A j \in 1..Len(t_) : t_[j] = (j - 1) * 1000

C6_Witness ==
  /\ pc = "done" /\ i_hold = None /\ weight = 2000
  /\ Len(EPSP) = 4000 /\ Len(Zeros(1, RowLen)[1]) = Len(EPSP)

HasEvent(e) == \E j \in 1..Len(net.events) : net.events[j] = e

\* C9: within a call, I is zero during the first 10 ms; I becomes i_hold at 10 ms
\* iff i_hold is neither None nor zero and otherwise stays zero; the presynaptic
\* spike is emitted once at 250 ms, after that; x_ampa is incremented exactly once,
\* at 252.2 ms, inside the 250-350 ms window and before the end; until then
\* g_ampa and x_ampa are zero and every EPSC sample before 252.2 ms is zero.
C9_TrialTimeline ==
  /\ pc \in {"sym_run1", "sym_hold"} => (net.I = 0 /\ net.k <= 100 /\ net.events = <<>>)
  /\ pc \in {"sym_run2", "sym_return", "done"} =>
       /\ net.k >= 100
       /\ net.I = IF i_hold # None /\ i_hold[1] # 0 THEN i_hold[1] ELSE 0
       /\ HasEvent(<<"I_set", 100>>) <=> (i_hold # None /\ i_hold[1] # 0)
       /\ HasEvent(<<"pre_spike", 2500>>) <=> net.k > 2500
       /\ HasEvent(<<"on_pre", 2522>>) <=> net.k > 2522
       /\ net.k <= 2522 => (net.g_ampa = 0 /\ net.x_ampa = 0)
       /\ net.k = 2523 => net.x_ampa > 0
       /\ Len(net.mon_EPSC) > 0 /\ net.k <= 2522 => net.mon_EPSC[Len(net.mon_EPSC)] = 0
  /\ pc = "done" =>
       /\ net.events = (IF i_hold # None /\ i_hold[1] # 0 THEN << <<"I_set", 100>> >> ELSE <<>>)
                         \o << <<"pre_spike", 2500>>, <<"on_pre", 2522>> >>
       /\ \A j \in 1..Len(t_) : t_[j] < 2522000 => EPSC[j] = 0
       /\ \E j \in 1..Len(t_) : EPSC[j] # 0
       /\ \A j \in 1..Len(net.events) :
            net.events[j][1] = "on_pre" =>
              /\ InWindow(net.events[j][2] * 1000)
              /\ net.events[j][2] < net.k
              /\ \E q \in 1..(j - 1) : net.events[q] = <<"pre_spike", net.events[j][2] - 22>>

C9_Witness ==
  /\ pc = "done" /\ i_hold = Some(0) /\ net.I = 0
  /\ HasEvent(<<"on_pre", 2522>>)
  /\ EPSC[2522] = 0 /\ EPSC[2530] > 0

====
